---- MODULE Spec2Model ----
(***************************************************************************)
(* Model of main.py: YouTubeScraperInterface (scrape_single_url,           *)
(* scrape_multiple_urls, scrape_from_file, interactive_mode) and main().   *)
(*                                                                         *)
(* One behaviour is one run of the process.  pc is the position of the    *)
(* single thread of control: "main" is run_scraper's dispatch point and    *)
(* the interactive menu prompt; the other values are positions inside one *)
(* orchestrator call.  The extraction engine (yt_data_extractor) is not    *)
(* part of main.py: its batch routine is modelled from its specification.  *)
(* A Session's stop() is taken to return normally, also on a Session that  *)
(* was never started.  An interrupt is delivered at the await points of a  *)
(* call before its cleanup and at the menu prompt.                         *)
(***************************************************************************)
EXTENDS Integers, Sequences, FiniteSets, TLC

\* ---------------------------------------------------------------- bounds
\* calls made by one interactive loop before the user must leave
MaxCalls == 2
\* longest Target list typed on the command line or at the menu
MaxTargets == 2
\* longest source file, in lines
MaxLines == 2

MaxSessions == MaxCalls

\* ------------------------------------------------------- program constants
\* sys.exit(0 if success else 1)
SuccessStatus == 0
FailureStatus == 1
\* except KeyboardInterrupt: sys.exit(1)
InterruptStatus == 1
\* asyncio.run(run_scraper()) has not ended: the process has no status yet
NoStatus == -1

\* ------------------------------------------------------------ input sets
\* text is a sequence of one-character strings
UrlA == <<"h", "t", "t", "p", "a">>
UrlB == <<"h", "t", "t", "p", "b">>
Targets == {UrlA, UrlB}

SampleLines ==
    { <<"\n">>,
      <<" ", " ", "\n">>,
      <<"n", "o", "t", "e", "\n">>,
      <<"n", "h", "t", "t", "p">>,
      <<"h", "t", "t">>,
      <<"h", "t", "t", "p", "a", "\n">>,
      <<" ", "h", "t", "t", "p", "b", " ">> }

SeqsUpTo(S, n) == UNION { [1..k -> S] : k \in 0..n }

TargetLists == SeqsUpTo(Targets, MaxTargets)

NoSource == [exists |-> FALSE, readable |-> FALSE, lines |-> <<>>]

Sources ==
    { NoSource, [exists |-> TRUE, readable |-> FALSE, lines |-> <<>>] }
    \cup { [exists |-> TRUE, readable |-> TRUE, lines |-> l] :
             l \in SeqsUpTo(SampleLines, MaxLines) }

CliModes == {"interactive", "url", "urls", "file"}

\* ------------------------------------------------------- pure functions
Whitespace == {" ", "\n", "\t", "\r"}

RECURSIVE LStrip(_)
LStrip(s) ==
    IF s # <<>> /\ Head(s) \in Whitespace THEN LStrip(Tail(s)) ELSE s

RECURSIVE RStrip(_)
RStrip(s) ==
    IF s # <<>> /\ s[Len(s)] \in Whitespace
    THEN RStrip(SubSeq(s, 1, Len(s) - 1))
    ELSE s

\* str.strip()
Strip(s) == RStrip(LStrip(s))

\* str.startswith('http')
StartsWithHttp(s) ==
    /\ Len(s) >= 4
    /\ SubSeq(s, 1, 4) = <<"h", "t", "t", "p">>

\* the condition of the list comprehension of scrape_from_file
KeepLineNoPrefixCheck(line) == Strip(line) # <<>>

KeepLine(line) == Strip(line) # <<>> /\ StartsWithHttp(Strip(line))

\* [line.strip() for line in f.readlines() if ...]
RECURSIVE ResolveTargets(_)
ResolveTargets(lines) ==
    IF lines = <<>> THEN <<>>
    ELSE IF KeepLine(Head(lines))
         THEN <<Strip(Head(lines))>> \o ResolveTargets(Tail(lines))
         ELSE ResolveTargets(Tail(lines))

\* ------------------------------------------------------------------ state
VARIABLES
    cli,        \* the input method main() parsed from the arguments
    pc,         \* position of the thread of control
    calls,      \* orchestrator calls made so far by this process
    extractor,  \* self.extractor: 0 is None, otherwise a Session id
    nextId,     \* number of Sessions constructed so far
    sess,       \* per Session: starts and stops invoked on it, its state
    op,         \* the orchestrator call in progress
    urls,       \* the Target list of the call
    failing,    \* the Targets whose extraction yields an error
    source,     \* the source file of a scrape_from_file call
    mine,       \* the Session constructed by this call, 0 if none
    log,        \* calls made on Sessions and the Output Writer in this call
    todo,       \* engine: Targets still to extract
    results,    \* the Records extracted in this call, in order
    handed,     \* the ResultSet the Output Writer accepted
    writes,     \* ResultSets the Output Writer accepted in this call
    ret,        \* value returned by the call
    fault,      \* the exception raised in this call
    raising,    \* an exception is propagating
    exitStatus, \* process exit status
    exitVia     \* the statement that ended the process

locals == <<op, urls, failing, source, mine, log, todo, results, handed,
            writes, ret, fault, raising>>
sessions == <<extractor, nextId, sess>>
process == <<cli, calls, exitStatus, exitVia>>
vars == <<cli, pc, calls, extractor, nextId, sess, op, urls, failing, source,
          mine, log, todo, results, handed, writes, ret, fault, raising,
          exitStatus, exitVia>>

NewSession == [state |-> "unborn", starts |-> 0, stops |-> 0]

Event(e, id) == [ev |-> e, id |-> id]

Record(t) == [target |-> t, error |-> (t \in failing)]

\* YouTubeScraperInterface.__init__ and the start of main()
Init ==
    /\ cli \in CliModes
    /\ pc = "main"
    /\ calls = 0
    /\ extractor = 0
    /\ nextId = 0
    /\ sess = [i \in 1..MaxSessions |-> NewSession]
    /\ op = "none"
    /\ urls = <<>>
    /\ failing = {}
    /\ source = NoSource
    /\ mine = 0
    /\ log = <<>>
    /\ todo = <<>>
    /\ results = <<>>
    /\ handed = <<>>
    /\ writes = 0
    /\ ret = "none"
    /\ fault = "none"
    /\ raising = FALSE
    /\ exitStatus = NoStatus
    /\ exitVia = "none"

\* ------------------------------------------------------------ call entry
\* entering an orchestrator method: fresh locals, the object's fields kept
CallBegin(o, u, f, src) ==
    /\ op' = o
    /\ urls' = u
    /\ failing' = f
    /\ source' = src
    /\ mine' = 0
    /\ log' = <<>>
    /\ todo' = <<>>
    /\ results' = <<>>
    /\ handed' = <<>>
    /\ writes' = 0
    /\ ret' = "none"
    /\ fault' = "none"
    /\ raising' = FALSE
    /\ pc' = IF o = "file" THEN "read" ELSE "ctor"
    /\ calls' = calls + 1
    /\ UNCHANGED <<cli, sessions, exitStatus, exitVia>>

\* elif args.url: scraper.scrape_single_url(args.url, args.output)
MainUrl ==
    /\ pc = "main" /\ cli = "url" /\ calls = 0
    /\ \E t \in Targets, f \in SUBSET Targets :
         CallBegin("single", <<t>>, f, NoSource)

\* elif args.urls: scraper.scrape_multiple_urls(urls, args.output)
MainUrls ==
    /\ pc = "main" /\ cli = "urls" /\ calls = 0
    /\ \E u \in TargetLists, f \in SUBSET Targets :
         CallBegin("multi", u, f, NoSource)

\* elif args.file: scraper.scrape_from_file(args.file, args.output)
MainFile ==
    /\ pc = "main" /\ cli = "file" /\ calls = 0
    /\ \E src \in Sources, f \in SUBSET Targets :
         CallBegin("file", <<>>, f, src)

\* choice == '1'
Menu1 ==
    /\ pc = "main" /\ cli = "interactive" /\ calls < MaxCalls
    /\ \E t \in Targets, f \in SUBSET Targets :
         CallBegin("single", <<t>>, f, NoSource)

\* choice == '2'
Menu2 ==
    /\ pc = "main" /\ cli = "interactive" /\ calls < MaxCalls
    /\ \E u \in TargetLists, f \in SUBSET Targets :
         CallBegin("multi", u, f, NoSource)

\* choice == '3'
Menu3 ==
    /\ pc = "main" /\ cli = "interactive" /\ calls < MaxCalls
    /\ \E src \in Sources, f \in SUBSET Targets :
         CallBegin("file", <<>>, f, src)

\* choice == '4': break, run_scraper returns, main() returns
Menu4 ==
    /\ pc = "main" /\ cli = "interactive"
    /\ pc' = "exited"
    /\ exitStatus' = SuccessStatus
    /\ exitVia' = "menu"
    /\ UNCHANGED <<cli, calls, sessions, locals>>

\* KeyboardInterrupt at input(): except KeyboardInterrupt: sys.exit(1)
MenuInterrupt ==
    /\ pc = "main" /\ cli = "interactive"
    /\ pc' = "exited"
    /\ exitStatus' = InterruptStatus
    /\ exitVia' = "interrupt"
    /\ UNCHANGED <<cli, calls, sessions, locals>>

\* ------------------------------------------------------ scrape_from_file
\* if not os.path.exists(file_path): return False
FileMissing ==
    /\ pc = "read" /\ ~source.exists
    /\ ret' = "failure"
    /\ pc' = "returned"
    /\ UNCHANGED <<process, sessions, op, urls, failing, source, mine, log,
                   todo, results, handed, writes, fault, raising>>

\* open() or readlines() raises: except Exception: return False
FileReadRaises ==
    /\ pc = "read" /\ source.exists /\ ~source.readable
    /\ fault' = "read"
    /\ ret' = "failure"
    /\ pc' = "returned"
    /\ UNCHANGED <<process, sessions, op, urls, failing, source, mine, log,
                   todo, results, handed, writes, raising>>

\* the file is read and filtered; an empty list returns False, any other
\* is passed to scrape_multiple_urls
FileRead ==
    /\ pc = "read" /\ source.exists /\ source.readable
    /\ urls' = ResolveTargets(source.lines)
    /\ IF urls' = <<>>
       THEN ret' = "failure" /\ pc' = "returned"
       ELSE ret' = ret /\ pc' = "ctor"
    /\ UNCHANGED <<process, sessions, op, failing, source, mine, log, todo,
                   results, handed, writes, fault, raising>>

\* ------------------------------- scrape_single_url, scrape_multiple_urls
\* self.extractor = AdvancedYouTubeExtractor(...)
Construct ==
    /\ pc = "ctor" /\ nextId < MaxSessions
    /\ nextId' = nextId + 1
    /\ extractor' = nextId + 1
    /\ mine' = nextId + 1
    /\ sess' = [sess EXCEPT ![nextId + 1].state = "created"]
    /\ pc' = "start"
    /\ UNCHANGED <<process, op, urls, failing, source, log, todo, results,
                   handed, writes, ret, fault, raising>>

\* the constructor raises: self.extractor keeps the value it had
ConstructRaises ==
    /\ pc = "ctor"
    /\ fault' = "ctor"
    /\ raising' = TRUE
    /\ pc' = "handler"
    /\ UNCHANGED <<process, sessions, op, urls, failing, source, mine, log,
                   todo, results, handed, writes, ret>>

\* await self.extractor.start() returns
StartOk ==
    /\ pc = "start"
    /\ sess' = [sess EXCEPT ![extractor].state = "active",
                            ![extractor].starts = @ + 1]
    /\ log' = Append(log, Event("start_ok", extractor))
    /\ pc' = IF op = "single" THEN "extract" ELSE "engine"
    /\ UNCHANGED <<process, extractor, nextId, op, urls, failing, source,
                   mine, todo, results, handed, writes, ret, fault, raising>>

StartRaisesSwallowed ==
    /\ pc = "start"
    /\ sess' = [sess EXCEPT ![extractor].starts = @ + 1]
    /\ log' = Append(log, Event("start_fail", extractor))
    /\ pc' = IF op = "single" THEN "extract" ELSE "engine"
    /\ UNCHANGED <<process, extractor, nextId, op, urls, failing, source,
                   mine, todo, results, handed, writes, ret, fault, raising>>

\* await self.extractor.start() raises
StartRaises ==
    /\ pc = "start"
    /\ sess' = [sess EXCEPT ![extractor].starts = @ + 1]
    /\ log' = Append(log, Event("start_fail", extractor))
    /\ fault' = "start"
    /\ raising' = TRUE
    /\ pc' = "handler"
    /\ UNCHANGED <<process, extractor, nextId, op, urls, failing, source,
                   mine, todo, results, handed, writes, ret>>

\* data = await self.extractor.extract_youtube_data(url)
Extract ==
    /\ pc = "extract"
    /\ results' = <<Record(urls[1])>>
    /\ log' = Append(log, Event("extract", extractor))
    /\ pc' = "check"
    /\ UNCHANGED <<process, sessions, op, urls, failing, source, mine, todo,
                   handed, writes, ret, fault, raising>>

\* extract_youtube_data raises
ExtractRaises ==
    /\ pc = "extract"
    /\ log' = Append(log, Event("extract", extractor))
    /\ fault' = "unexpected"
    /\ raising' = TRUE
    /\ pc' = "handler"
    /\ UNCHANGED <<process, sessions, op, urls, failing, source, mine, todo,
                   results, handed, writes, ret>>

CheckErrorIgnored ==
    /\ pc = "check"
    /\ pc' = "save"
    /\ UNCHANGED <<process, sessions, locals>>

\* if data.get('error'): return False
CheckError ==
    /\ pc = "check"
    /\ IF results[1].error
       THEN ret' = "failure" /\ pc' = "finally"
       ELSE ret' = ret /\ pc' = "save"
    /\ UNCHANGED <<process, sessions, op, urls, failing, source, mine, log,
                   todo, results, handed, writes, fault, raising>>

\* await self.extractor.save_clean_final_output([data], output_file);
\* return True
Save ==
    /\ pc = "save"
    /\ handed' = <<results[1]>>
    /\ writes' = writes + 1
    /\ log' = Append(log, Event("write", extractor))
    /\ ret' = "success"
    /\ pc' = "finally"
    /\ UNCHANGED <<process, sessions, op, urls, failing, source, mine, todo,
                   results, fault, raising>>

\* save_clean_final_output raises
SaveRaises ==
    /\ pc = "save"
    /\ log' = Append(log, Event("write_fail", extractor))
    /\ fault' = "write"
    /\ raising' = TRUE
    /\ pc' = "handler"
    /\ UNCHANGED <<process, sessions, op, urls, failing, source, mine, todo,
                   results, handed, writes, ret>>

CallEngineSkipsFirst ==
    /\ pc = "engine"
    /\ todo' = IF urls = <<>> THEN <<>> ELSE Tail(urls)
    /\ results' = <<>>
    /\ pc' = "iter"
    /\ UNCHANGED <<process, sessions, op, urls, failing, source, mine, log,
                   handed, writes, ret, fault, raising>>

\* await self.extractor.extract_and_save_clean_data_from_urls(urls, ...)
CallEngine ==
    /\ pc = "engine"
    /\ todo' = urls
    /\ results' = <<>>
    /\ pc' = "iter"
    /\ UNCHANGED <<process, sessions, op, urls, failing, source, mine, log,
                   handed, writes, ret, fault, raising>>

\* engine: the next Target is extracted; a failure becomes an error Record
EngineExtract ==
    /\ pc = "iter" /\ todo # <<>>
    /\ results' = Append(results, Record(Head(todo)))
    /\ todo' = Tail(todo)
    /\ log' = Append(log, Event("extract", extractor))
    /\ UNCHANGED <<process, sessions, pc, op, urls, failing, source, mine,
                   handed, writes, ret, fault, raising>>

\* engine: a fault that is not a Target's own escapes the batch routine
EngineFault ==
    /\ pc = "iter" /\ todo # <<>>
    /\ log' = Append(log, Event("extract", extractor))
    /\ fault' = "unexpected"
    /\ raising' = TRUE
    /\ pc' = "handler"
    /\ UNCHANGED <<process, sessions, op, urls, failing, source, mine, todo,
                   results, handed, writes, ret>>

\* engine: the whole ResultSet goes to the Output Writer in one call
EngineWrite ==
    /\ pc = "iter" /\ todo = <<>>
    /\ handed' = results
    /\ writes' = writes + 1
    /\ log' = Append(log, Event("write", extractor))
    /\ pc' = "engineret"
    /\ UNCHANGED <<process, sessions, op, urls, failing, source, mine, todo,
                   results, ret, fault, raising>>

\* engine: the Output Writer rejects the ResultSet
EngineWriteRaises ==
    /\ pc = "iter" /\ todo = <<>>
    /\ log' = Append(log, Event("write_fail", extractor))
    /\ fault' = "write"
    /\ raising' = TRUE
    /\ pc' = "handler"
    /\ UNCHANGED <<process, sessions, op, urls, failing, source, mine, todo,
                   results, handed, writes, ret>>

MultiReturnFailsOnRecordError ==
    /\ pc = "engineret"
    /\ ret' = IF \E i \in 1..Len(results) : results[i].error
              THEN "failure" ELSE "success"
    /\ pc' = "finally"
    /\ UNCHANGED <<process, sessions, op, urls, failing, source, mine, log,
                   todo, results, handed, writes, fault, raising>>

\* print(...); return True
MultiReturn ==
    /\ pc = "engineret"
    /\ ret' = "success"
    /\ pc' = "finally"
    /\ UNCHANGED <<process, sessions, op, urls, failing, source, mine, log,
                   todo, results, handed, writes, fault, raising>>

HandlerReraises ==
    /\ pc = "handler"
    /\ pc' = "finally"
    /\ UNCHANGED <<process, sessions, locals>>

\* except Exception as e: print(...); return False
Handler ==
    /\ pc = "handler"
    /\ raising' = FALSE
    /\ ret' = "failure"
    /\ pc' = "finally"
    /\ UNCHANGED <<process, sessions, op, urls, failing, source, mine, log,
                   todo, results, handed, writes, fault>>

AwaitPoints == {"start", "extract", "save", "iter"}

InterruptSkipsCleanup ==
    /\ pc \in AwaitPoints
    /\ fault' = "interrupt"
    /\ raising' = TRUE
    /\ pc' = "returned"
    /\ UNCHANGED <<process, sessions, op, urls, failing, source, mine, log,
                   todo, results, handed, writes, ret>>

\* KeyboardInterrupt or task cancellation at an await inside the try block:
\* not an Exception, so only the finally clause runs
Interrupt ==
    /\ pc \in AwaitPoints
    /\ fault' = "interrupt"
    /\ raising' = TRUE
    /\ pc' = "finally"
    /\ UNCHANGED <<process, sessions, op, urls, failing, source, mine, log,
                   todo, results, handed, writes, ret>>

\* await self.extractor.stop()
StopSession(id) ==
    /\ sess' = [sess EXCEPT ![id].state = "stopped", ![id].stops = @ + 1]
    /\ log' = Append(log, Event("stop", id))

FinallyAfterSuccessOnly ==
    /\ pc = "finally"
    /\ IF extractor # 0 /\ ret = "success"
       THEN StopSession(extractor)
       ELSE UNCHANGED <<sess, log>>
    /\ pc' = "returned"
    /\ UNCHANGED <<process, extractor, nextId, op, urls, failing, source,
                   mine, todo, results, handed, writes, ret, fault, raising>>

\* finally: if self.extractor: await self.extractor.stop()
Finally ==
    /\ pc = "finally"
    /\ IF extractor # 0
       THEN StopSession(extractor)
       ELSE UNCHANGED <<sess, log>>
    /\ pc' = "returned"
    /\ UNCHANGED <<process, extractor, nextId, op, urls, failing, source,
                   mine, todo, results, handed, writes, ret, fault, raising>>

\* ---------------------------------------------------- back in the caller
\* interactive_mode ignores the returned value and prompts again
MenuResume ==
    /\ pc = "returned" /\ ~raising /\ cli = "interactive"
    /\ pc' = "main"
    /\ op' = "none"
    /\ urls' = <<>>
    /\ failing' = {}
    /\ source' = NoSource
    /\ mine' = 0
    /\ log' = <<>>
    /\ todo' = <<>>
    /\ results' = <<>>
    /\ handed' = <<>>
    /\ writes' = 0
    /\ ret' = "none"
    /\ fault' = "none"
    /\ raising' = FALSE
    /\ UNCHANGED <<process, sessions>>

\* sys.exit(0 if success else 1)
SysExit ==
    /\ pc = "returned" /\ ~raising /\ cli # "interactive"
    /\ pc' = "exited"
    /\ exitStatus' = IF ret = "success" THEN SuccessStatus ELSE FailureStatus
    /\ exitVia' = IF ret = "success" THEN "success" ELSE "failure"
    /\ UNCHANGED <<cli, calls, sessions, locals>>

\* the interrupt leaves asyncio.run: except KeyboardInterrupt: sys.exit(1)
InterruptExit ==
    /\ pc = "returned" /\ raising /\ fault = "interrupt"
    /\ pc' = "exited"
    /\ exitStatus' = InterruptStatus
    /\ exitVia' = "interrupt"
    /\ UNCHANGED <<cli, calls, sessions, locals>>

Next ==
    \/ MainUrl \/ MainUrls \/ MainFile
    \/ Menu1 \/ Menu2 \/ Menu3 \/ Menu4 \/ MenuInterrupt
    \/ FileMissing \/ FileReadRaises \/ FileRead
    \/ Construct \/ ConstructRaises
    \/ StartOk \/ StartRaises
    \/ Extract \/ ExtractRaises \/ CheckError \/ Save \/ SaveRaises
    \/ CallEngine \/ EngineExtract \/ EngineFault
    \/ EngineWrite \/ EngineWriteRaises \/ MultiReturn
    \/ Handler \/ Interrupt \/ Finally
    \/ MenuResume \/ SysExit \/ InterruptExit

Spec == Init /\ [][Next]_vars

TypeOK ==
    /\ cli \in CliModes
    /\ extractor \in 0..MaxSessions
    /\ nextId \in 0..MaxSessions
    /\ mine \in 0..MaxSessions
    /\ ret \in {"none", "success", "failure"}
    /\ exitStatus \in {NoStatus, SuccessStatus, FailureStatus, InterruptStatus}

\* ----------------------------------------------------------- properties
EventCount(kinds) == Cardinality({i \in 1..Len(log) : log[i].ev \in kinds})

\* the call in progress is, or has delegated to, scrape_multiple_urls
ManyCall == op = "multi" \/ (op = "file" /\ urls # <<>>)

\* scrape_single_url or scrape_multiple_urls has finished its finally clause
BatchReturned == pc = "returned" /\ (op = "single" \/ ManyCall)

BatchFaults == {"ctor", "start", "unexpected", "write"}

\* C1: when scrape_single_url or scrape_multiple_urls has constructed its
\* Session, then by the time the call is over stop has been invoked exactly
\* once in that call, on that Session, as the last call made on it, whether
\* every Target succeeded, some failed, start raised or an unexpected
\* exception was raised during extraction or writing.
C1_StopExactlyOnce ==
    (BatchReturned /\ mine # 0) =>
        /\ EventCount({"stop"}) = 1
        /\ log[Len(log)] = Event("stop", mine)
        /\ sess[mine].stops = 1

C1_Witness ==
    /\ BatchReturned
    /\ mine # 0
    /\ fault = "start"
    /\ sess[mine].state = "stopped"
    /\ EventCount({"stop"}) = 1

\* C2 as stated: scrape_multiple_urls returns Failure only when Session
\* start fails or the Output Writer rejects the ResultSet.
C2_FailureOnlyOnStartOrWrite ==
    (pc = "returned" /\ ManyCall /\ ~raising) =>
        (ret = "failure" <=> fault \in {"start", "write"})

\* C2 amended: a scrape_multiple_urls call that returns reports Failure
\* exactly when a batch-level fault occurred (Session construction or start
\* raised, the Output Writer rejected the ResultSet, or an unexpected
\* exception escaped the batch extraction); otherwise it returns Success
\* however many Targets failed, and the ResultSet handed over holds for
\* every Target, in order, that Target's own Record, error-bearing exactly
\* for the failing Targets.
C2_FailureOnlyOnBatchFault ==
    (pc = "returned" /\ ManyCall /\ ~raising) =>
        /\ ret = "failure" <=> fault \in BatchFaults
        /\ ret = "success" =>
             /\ Len(handed) = Len(urls)
             /\ \A i \in 1..Len(urls) :
                  handed[i] = [target |-> urls[i],
                               error |-> (urls[i] \in failing)]

C2_Witness ==
    /\ pc = "returned"
    /\ op = "multi"
    /\ ret = "success"
    /\ Len(handed) = 2
    /\ handed[1].error
    /\ ~handed[2].error

\* C3: the ResultSet that a scrape_multiple_urls call hands to the Output
\* Writer has exactly one Record per Target of the list, in the order of the
\* list, whatever Targets failed; a Target listed twice has two Records.
C3_OneRecordPerTarget ==
    (ManyCall /\ writes > 0) =>
        /\ writes = 1
        /\ Len(handed) = Len(urls)
        /\ \A i \in 1..Len(urls) : handed[i].target = urls[i]

C3_Witness ==
    /\ pc = "returned"
    /\ op = "multi"
    /\ writes = 1
    /\ Len(urls) = 2
    /\ urls[1] = urls[2]
    /\ Len(handed) = 2
    /\ handed[1].error

\* no line of the source, once trimmed, starts with 'http', or no source
NoValidTarget ==
    \/ ~source.exists
    \/ \A i \in 1..Len(source.lines) :
         ~StartsWithHttp(Strip(source.lines[i]))

\* C4: a scrape_from_file call whose path does not exist or whose lines,
\* trimmed, never start with 'http' constructs no Session, makes no call on
\* any Session, and returns Failure.
C4_NoSessionWithoutTargets ==
    (op = "file" /\ NoValidTarget) =>
        /\ mine = 0
        /\ log = <<>>
        /\ pc \in {"read", "returned", "exited"}
        /\ pc # "read" => (ret = "failure" /\ ~raising)

C4_Witness ==
    /\ pc = "returned"
    /\ op = "file"
    /\ source.readable
    /\ source.lines = << <<"\n">>, <<"n", "o", "t", "e", "\n">> >>
    /\ ret = "failure"
    /\ nextId = 0

\* C5: within one call at most one start is issued; every extraction and
\* every Output Writer call comes after a start of the same Session that
\* returned normally; nothing follows stop; a call that returns Success
\* issued exactly one start.
C5_StartExtractStop ==
    /\ EventCount({"start_ok", "start_fail"}) <= 1
    /\ \A i \in 1..Len(log) :
         log[i].ev \in {"extract", "write", "write_fail"} =>
             \E j \in 1..(i - 1) : log[j] = Event("start_ok", log[i].id)
    /\ \A i \in 1..Len(log) : log[i].ev = "stop" => i = Len(log)
    /\ (pc = "returned" /\ ret = "success") => EventCount({"start_ok"}) = 1

C5_Witness ==
    /\ pc = "returned"
    /\ op = "multi"
    /\ Len(urls) = 2
    /\ log = << Event("start_ok", mine), Event("extract", mine),
                Event("extract", mine), Event("write", mine),
                Event("stop", mine) >>

\* C6: an interrupt that arrives while a call has its Session constructed
\* still gets stop invoked on that Session, once, before the call is left;
\* when the process has exited, by any route, no Session is left started
\* and not stopped.
C6_InterruptStillStops ==
    /\ (pc \in {"returned", "exited"} /\ fault = "interrupt" /\ mine # 0) =>
           /\ sess[mine].stops = 1
           /\ log[Len(log)] = Event("stop", mine)
    /\ pc = "exited" =>
           \A i \in 1..MaxSessions : sess[i].state # "active"

C6_Witness ==
    /\ pc = "exited"
    /\ exitVia = "interrupt"
    /\ fault = "interrupt"
    /\ mine # 0
    /\ sess[mine].starts = 1
    /\ sess[mine].stops = 1

\* C7: scrape_single_url hands the Output Writer only the one-element
\* ResultSet of a clean Record; when the Record carries an error the call
\* returns Failure, no Output Writer call is made, and the Session has been
\* stopped.
C7_SingleWritesOnlyClean ==
    op = "single" =>
        /\ EventCount({"write", "write_fail"}) > 0 =>
             (Len(results) = 1 /\ ~results[1].error)
        /\ writes > 0 => handed = results
        /\ (pc = "returned" /\ results # <<>> /\ results[1].error) =>
             /\ ret = "failure"
             /\ writes = 0
             /\ handed = <<>>
             /\ sess[mine].state = "stopped"

C7_Witness ==
    /\ pc = "returned"
    /\ op = "single"
    /\ results # <<>>
    /\ results[1].error
    /\ ret = "failure"
    /\ EventCount({"write", "write_fail"}) = 0
    /\ sess[mine].state = "stopped"

\* C8: when Session construction or start raises, the Output Writer raises,
\* or another exception is raised in the try block, the call returns
\* Failure, no exception leaves it, and the Session it constructed has been
\* stopped by then.
C8_FaultBecomesFailure ==
    (BatchReturned /\ fault \in BatchFaults) =>
        /\ ret = "failure"
        /\ ~raising
        /\ mine # 0 => (sess[mine].state = "stopped"
                        /\ log[Len(log)].ev = "stop")

C8_Witness ==
    /\ pc = "returned"
    /\ op = "multi"
    /\ fault = "write"
    /\ Len(results) = 2
    /\ \A i \in 1..Len(results) : ~results[i].error
    /\ ret = "failure"
    /\ sess[mine].state = "stopped"

\* C9 as stated: a successful run exits with status zero, a batch-level
\* failure with a non-zero status, and an interrupt with a non-zero status
\* other than the batch-failure status.
C9_ExitStatusDistinct ==
    pc = "exited" =>
        /\ exitVia = "success" => exitStatus = 0
        /\ exitVia = "failure" => exitStatus # 0
        /\ exitVia = "interrupt" =>
             (exitStatus # 0 /\ exitStatus # FailureStatus)

\* C10 as stated: over the calls made on one object every constructed
\* Session is stopped at most once, exactly once when no call is in
\* progress, and a call invokes stop only on the Session it constructed.
C10_EachSessionStoppedOnce ==
    /\ \A i \in 1..MaxSessions : sess[i].stops <= 1
    /\ pc = "main" => \A i \in 1..nextId : sess[i].stops = 1
    /\ \A k \in 1..Len(log) :
         log[k].ev = "stop" => (mine # 0 /\ log[k].id = mine)

====
